---- MODULE Spec2Model ----
(***************************************************************************)
(* Model of the recommendation endpoint of cinegraph                       *)
(* (backend/app/recs.py): seed fetch, preference vector, candidate query   *)
(* construction, candidate fetch, cosine scoring, ranking; of the vector   *)
(* decoders _ensure_vec and _as_vec and of _dsn; of the retry loop of      *)
(* TMDBClient._request (backend/app/tmdb.py); and of download_file         *)
(* (etl/imdb_fetch.py).                                                    *)
(*                                                                         *)
(* Python strings that the code inspects character by character (the       *)
(* comma-separated request parameters) are sequences of one-character      *)
(* strings.  SQL text is a sequence of text fragments; the placeholder     *)
(* "%s" is a fragment of its own.                                          *)
(***************************************************************************)
EXTENDS Integers, Sequences, FiniteSets, TLC

VARIABLES
    seedTable,   \* rows of analytics.int_user_seed_preferences (heap order)
    pc,          \* position of the request handler recs_for_me
    req,         \* the query-string parameters of the request in progress
    conn,        \* state of the psycopg connection of the request
    seeds,       \* local variable seeds of recs_for_me
    pref,        \* local variable pref of recs_for_me
    query,       \* the (sql, params) pair handed to cur.execute
    cands,       \* local variable cands of recs_for_me
    response,    \* the HTTP response of the request
    io,          \* the queries issued on the connection, in order
    call,        \* the arguments of a call of a helper function on its own
    ret,         \* what a helper function called on its own returns or raises
    tmdb,        \* the locals of TMDBClient._request and the waits it made
    disk,        \* the files of one dataset in the output directory of imdb_fetch
    dl           \* the locals of download_file

vars == <<seedTable, pc, req, conn, seeds, pref, query, cands, response, io, call, ret, tmdb, disk, dl>>

----------------------------------------------------------------------------
(* Python str operations on sequences of characters *)

Upper == <<"A","B","C","D","E","F","G","H","I","J","K","L","M",
           "N","O","P","Q","R","S","T","U","V","W","X","Y","Z">>
Lower == <<"a","b","c","d","e","f","g","h","i","j","k","l","m",
           "n","o","p","q","r","s","t","u","v","w","x","y","z">>

LowerChar(c) ==
    IF \E i \in DOMAIN Upper : Upper[i] = c
    THEN Lower[CHOOSE i \in DOMAIN Upper : Upper[i] = c]
    ELSE c

\* str.lower()
StrLower(s) == [i \in DOMAIN s |-> LowerChar(s[i])]

\* str.replace(old, new) for single characters
StrReplace(s, old, new) == [i \in DOMAIN s |-> IF s[i] = old THEN new ELSE s[i]]

RECURSIVE LStrip(_)
LStrip(s) == IF s # <<>> /\ Head(s) = " " THEN LStrip(Tail(s)) ELSE s

RECURSIVE RStrip(_)
RStrip(s) ==
    IF s # <<>> /\ s[Len(s)] = " " THEN RStrip(SubSeq(s, 1, Len(s) - 1)) ELSE s

\* str.strip()
StrStrip(s) == RStrip(LStrip(s))

\* str.split(","): the pieces between the commas, empty pieces kept
RECURSIVE SplitFrom(_, _, _)
SplitFrom(s, i, cur) ==
    IF i > Len(s) THEN <<cur>>
    ELSE IF s[i] = "," THEN <<cur>> \o SplitFrom(s, i + 1, <<>>)
    ELSE SplitFrom(s, i + 1, Append(cur, s[i]))

StrSplit(s) == SplitFrom(s, 1, <<>>)

\* [x.strip() for x in s.split(",")] if s else None ; None is <<>> here:
\* both are falsy and the callee only tests truthiness
SplitStripList(s) ==
    IF s = <<>> THEN <<>>
    ELSE [i \in DOMAIN StrSplit(s) |-> StrStrip(StrSplit(s)[i])]

----------------------------------------------------------------------------
(* GENRE_TO_COL *)

K_action      == <<"a","c","t","i","o","n">>
K_adventure   == <<"a","d","v","e","n","t","u","r","e">>
K_animation   == <<"a","n","i","m","a","t","i","o","n">>
K_comedy      == <<"c","o","m","e","d","y">>
K_crime       == <<"c","r","i","m","e">>
K_documentary == <<"d","o","c","u","m","e","n","t","a","r","y">>
K_drama       == <<"d","r","a","m","a">>
K_family      == <<"f","a","m","i","l","y">>
K_fantasy     == <<"f","a","n","t","a","s","y">>
K_history     == <<"h","i","s","t","o","r","y">>
K_horror      == <<"h","o","r","r","o","r">>
K_music       == <<"m","u","s","i","c">>
K_mystery     == <<"m","y","s","t","e","r","y">>
K_romance     == <<"r","o","m","a","n","c","e">>
K_sci_fi      == <<"s","c","i","-","f","i">>
K_scifi       == <<"s","c","i","f","i">>
K_science_fiction ==
    <<"s","c","i","e","n","c","e"," ","f","i","c","t","i","o","n">>
K_tv_movie    == <<"t","v"," ","m","o","v","i","e">>
K_tvmovie     == <<"t","v","m","o","v","i","e">>
K_thriller    == <<"t","h","r","i","l","l","e","r">>
K_war         == <<"w","a","r">>
K_western     == <<"w","e","s","t","e","r","n">>

GENRE_TO_COL ==
    { <<K_action, "g_action">>, <<K_adventure, "g_adventure">>,
      <<K_animation, "g_animation">>, <<K_comedy, "g_comedy">>,
      <<K_crime, "g_crime">>, <<K_documentary, "g_documentary">>,
      <<K_drama, "g_drama">>, <<K_family, "g_family">>,
      <<K_fantasy, "g_fantasy">>, <<K_history, "g_history">>,
      <<K_horror, "g_horror">>, <<K_music, "g_music">>,
      <<K_mystery, "g_mystery">>, <<K_romance, "g_romance">>,
      <<K_sci_fi, "g_scifi">>, <<K_scifi, "g_scifi">>,
      <<K_science_fiction, "g_scifi">>,
      <<K_tv_movie, "g_tvmovie">>, <<K_tvmovie, "g_tvmovie">>,
      <<K_thriller, "g_thriller">>, <<K_war, "g_war">>,
      <<K_western, "g_western">> }

GenreKeys == { p[1] : p \in GENRE_TO_COL }
GenreColumns == { p[2] : p \in GENRE_TO_COL }

NoCol == "None"

\* GENRE_TO_COL.get(token)
GenreGet(token) ==
    IF token \in GenreKeys
    THEN (CHOOSE p \in GENRE_TO_COL : p[1] = token)[2]
    ELSE NoCol

\* the column a genre token of the request resolves to (lines 199-201)
GenreKeyOf(g) ==
    LET token == StrReplace(StrLower(StrStrip(g)), "-", " ")
    IN  IF token \in GenreKeys THEN token ELSE StrLower(StrStrip(g))

ResolveGenre(g) == GenreGet(GenreKeyOf(g))

----------------------------------------------------------------------------
(* The warehouse: analytics.int_titles_features joined with                *)
(* stg_title_basics (titleType) and stg_title_akas (akas).  A nullable     *)
(* column holds <<>> for NULL and <<v>> for the value v.  Column g is the  *)
(* set of the boolean genre columns that are TRUE.                         *)

S_tt1   == <<"t","t","1">>
S_tt2   == <<"t","t","2">>
S_tt3   == <<"t","t","3">>
S_tt4   == <<"t","t","4">>
S_tt5   == <<"t","t","5">>
S_tt6   == <<"t","t","6">>
S_u1    == <<"u","1">>
S_u2    == <<"u","2">>
S_movie == <<"m","o","v","i","e">>
S_short == <<"s","h","o","r","t">>
S_en    == <<"e","n">>
S_fr    == <<"f","r">>
S_US    == <<"U","S">>
S_GB    == <<"G","B">>
S_FR    == <<"F","R">>

Title(id, tt, year, rating, votes, adult, yn, rn, ran, g, akas) ==
    [tconst |-> id, primary_title |-> id, english_title |-> id,
     titleType |-> tt, start_year |-> year, average_rating |-> rating,
     num_votes |-> votes, f_is_adult |-> adult,
     f_year_norm |-> yn, f_runtime_norm |-> rn, f_rating_norm |-> ran,
     g |-> g, akas |-> akas]

Aka(l, r) == [language |-> l, region |-> r]

TitlesFeatures ==
    { Title(S_tt1, S_movie, 2010, <<8>>, 500, <<FALSE>>, <<1>>, <<1>>, <<1>>,
            {"g_scifi"}, {Aka(S_en, S_US)}),
      Title(S_tt2, S_movie, 2010, <<7>>, 500, <<>>, <<1>>, <<1>>, <<1>>,
            {"g_scifi"}, {Aka(S_fr, S_FR)}),
      Title(S_tt3, S_movie, 2010, <<7>>, 900, <<FALSE>>, <<1>>, <<1>>, <<1>>,
            {"g_scifi"}, {}),
      Title(S_tt4, S_movie, 2010, <<6>>, 500, <<TRUE>>, <<1>>, <<>>, <<1>>,
            {"g_drama"}, {Aka(S_en, S_GB)}),
      Title(S_tt5, S_short, 1950, <<>>, 500, <<FALSE>>, <<>>, <<>>, <<>>,
            {}, {Aka(S_en, S_GB)}),
      Title(S_tt6, S_movie, 1950, <<9>>, 900, <<FALSE>>, <<>>, <<1>>, <<>>,
            {"g_drama", "g_action"}, {Aka(S_en, S_US), Aka(S_fr, S_FR)}) }

TitleIds == { t.tconst : t \in TitlesFeatures }

\* COALESCE(x, d)
Coalesce(x, d) == IF x = <<>> THEN d ELSE x[1]

\* the genre columns in the order of FEATURE_JSON_SQL
FeatureGenreCols ==
    <<"g_action", "g_adventure", "g_animation", "g_comedy", "g_crime",
      "g_documentary", "g_drama", "g_family", "g_fantasy", "g_history",
      "g_horror", "g_music", "g_mystery", "g_romance", "g_scifi",
      "g_tvmovie", "g_thriller", "g_war", "g_western">>

\* json_build_array(...) AS feature_vec
FEATURE_JSON_SQL(f) ==
    << Coalesce(f.f_year_norm, 0), Coalesce(f.f_runtime_norm, 0),
       Coalesce(f.f_rating_norm, 0) >>
    \o [i \in DOMAIN FeatureGenreCols |->
            IF FeatureGenreCols[i] \in f.g THEN 1 ELSE 0]

\* the number of elements of json_build_array(...)
D == 3 + Len(FeatureGenreCols)

\* Python values as the two decoders see them: t is the Python type, v the
\* content.  A list or tuple holds elements [py, n] (py the element's type,
\* n its number), a str holds characters, bytes and memoryview hold byte
\* values, anything else ("other": None, a dict, a number) holds nothing.
PyNum(n)  == [py |-> "int", n |-> n]
PyNone    == [py |-> "NoneType", n |-> 0]
PyWord    == [py |-> "str", n |-> 0]
PyList(l) == [t |-> "list", v |-> l]

\* psycopg loads a json column into a Python list of numbers
PgJson(x) == PyList([i \in DOMAIN x |-> PyNum(x[i])])

\* the numbers of a Python list of numbers
Unbox(l) == [i \in DOMAIN l |-> l[i].n]

Returned(x)  == [raised |-> "", value |-> x]
Raised(e)    == [raised |-> e, value |-> <<>>]

\* float(x) for x in l: the first element that is no number raises
FloatAll(l) ==
    LET bad == { i \in DOMAIN l : l[i].py \notin {"int", "float"} }
        first == CHOOSE i \in bad : \A j \in bad : i <= j
    IN  IF bad = {} THEN Returned(Unbox(l))
        ELSE IF l[first].py = "NoneType" THEN Raised("TypeError")
        ELSE Raised("ValueError")

Digits == <<"0", "1", "2", "3", "4", "5", "6", "7", "8", "9">>
IsDigit(c) == \E d \in DOMAIN Digits : Digits[d] = c
DigitValue(c) == (CHOOSE d \in DOMAIN Digits : Digits[d] = c) - 1

RECURSIVE ParseNat(_)
ParseNat(tok) ==
    IF tok = <<>> THEN 0
    ELSE 10 * ParseNat(SubSeq(tok, 1, Len(tok) - 1)) + DigitValue(tok[Len(tok)])

J_null == <<"n","u","l","l">>
J_word == <<"\"","a","\"">>

\* a JSON scalar: a number, null or the string "a"
JsonScalarOk(tok) ==
    \/ tok # <<>> /\ \A i \in DOMAIN tok : IsDigit(tok[i])
    \/ tok \in {J_null, J_word}
JsonScalar(tok) ==
    IF tok = J_null THEN PyNone
    ELSE IF tok = J_word THEN PyWord
    ELSE PyNum(ParseNat(tok))

\* json.loads(text): an array of scalars, the empty object, a scalar, or a
\* JSONDecodeError (a ValueError)
JsonLoads(text) ==
    LET s == StrStrip(text)
    IN  IF s = <<"{", "}">> THEN [raised |-> "", kind |-> "dict", v |-> <<>>]
        ELSE IF Len(s) >= 2 /\ s[1] = "[" /\ s[Len(s)] = "]"
        THEN LET inner == SubSeq(s, 2, Len(s) - 1)
                 parts == StrSplit(inner)
                 toks  == IF StrStrip(inner) = <<>> THEN <<>>
                          ELSE [i \in DOMAIN parts |-> StrStrip(parts[i])]
             IN  IF \A i \in DOMAIN toks : JsonScalarOk(toks[i])
                 THEN [raised |-> "", kind |-> "list",
                       v |-> [i \in DOMAIN toks |-> JsonScalar(toks[i])]]
                 ELSE [raised |-> "ValueError", kind |-> "", v |-> <<>>]
        ELSE IF JsonScalarOk(s)
        THEN [raised |-> "", kind |-> "scalar", v |-> <<JsonScalar(s)>>]
        ELSE [raised |-> "ValueError", kind |-> "", v |-> <<>>]

\* bytes.decode("utf-8") on the bytes of JSON text; a byte that starts no
\* UTF-8 sequence raises UnicodeDecodeError
Chr(b) ==
    CASE b = 32 -> " "
      [] b = 34 -> "\""
      [] b = 44 -> ","
      [] b \in 48..57 -> Digits[b - 47]
      [] b = 91 -> "["
      [] b = 93 -> "]"
      [] b = 97 -> "a"
      [] b = 123 -> "{"
      [] b = 125 -> "}"
      [] OTHER -> "?"
Utf8Decode(bs) ==
    IF \E i \in DOMAIN bs : bs[i] >= 128 THEN Raised("UnicodeDecodeError")
    ELSE Returned([i \in DOMAIN bs |-> Chr(bs[i])])

\* [float(x) for x in json.loads(text)]
FloatJson(text) ==
    LET j == JsonLoads(text)
    IN  IF j.raised # "" THEN Raised(j.raised)
        ELSE IF j.kind = "scalar" THEN Raised("TypeError")
        ELSE FloatAll(j.v)

\* lines 17-28
EnsureVec(v) ==
    IF v.t \in {"list", "tuple"} THEN FloatAll(v.v)
    ELSE IF v.t \in {"memoryview", "bytes"}
    THEN LET s == Utf8Decode(v.v)
         IN  IF s.raised # "" THEN s ELSE FloatJson(s.value)
    ELSE IF v.t = "str" THEN FloatJson(v.v)
    ELSE Returned(<<>>)

\* lines 30-35: the elements are returned as they are
AsVec(value) ==
    IF value.t \in {"list", "tuple"} THEN Returned(value.v)
    ELSE IF value.t \in {"memoryview", "other"} THEN Raised("TypeError")
    ELSE LET s == IF value.t = "bytes" THEN Utf8Decode(value.v) ELSE Returned(value.v)
             j == JsonLoads(s.value)
         IN  IF s.raised # "" THEN s
             ELSE IF j.raised # "" THEN Raised(j.raised)
             ELSE Returned(j.v)

Range(s) == { s[i] : i \in DOMAIN s }

----------------------------------------------------------------------------
(* _fetch_seeds and _build_pref_vector *)

FeatureRow(id) == CHOOSE t \in TitlesFeatures : t.tconst = id

\* SELECT s.tconst, s.weight, feature_vec FROM seeds s JOIN features f
\* USING (tconst) WHERE s.user_id = %s
FetchSeeds(table, user_id) ==
    LET Hit(s) == s.user_id = user_id /\ s.tconst \in TitleIds
        rows == SelectSeq(table, Hit)
    IN  [i \in DOMAIN rows |->
            [tconst |-> rows[i].tconst, weight |-> rows[i].weight,
             vec |-> Unbox(AsVec(PgJson(FEATURE_JSON_SQL(FeatureRow(rows[i].tconst)))).value)]]

RECURSIVE SumSeq(_)
SumSeq(s) == IF s = <<>> THEN 0 ELSE Head(s) + SumSeq(Tail(s))

NoPref == [none |-> TRUE, num |-> <<>>, den |-> 1]

\* _build_pref_vector as the plain mean of the seed vectors
BuildPrefVectorUnweighted(sds) ==
    IF sds = <<>> THEN NoPref
    ELSE LET total_w == SumSeq([j \in DOMAIN sds |-> sds[j].weight])
             k == Len(sds[1].vec)
         IN  IF total_w <= 0 THEN NoPref
             ELSE [none |-> FALSE,
                   num |-> [i \in 1..k |->
                              SumSeq([j \in DOMAIN sds |-> sds[j].vec[i]])],
                   den |-> Len(sds)]

\* _build_pref_vector with the test total_w < 0 in place of total_w <= 0
BuildPrefVectorStrict(sds) ==
    IF sds = <<>> THEN NoPref
    ELSE LET total_w == SumSeq([j \in DOMAIN sds |-> sds[j].weight])
             k == Len(sds[1].vec)
         IN  IF total_w < 0 THEN NoPref
             ELSE [none |-> FALSE,
                   num |-> [i \in 1..k |->
                              SumSeq([j \in DOMAIN sds |->
                                         sds[j].weight * sds[j].vec[i]])],
                   den |-> total_w]

\* The weighted average acc[i] = sum_j (w_j / total_w) * v_j[i] is kept as
\* the exact fraction num[i] / den with den = total_w > 0.
BuildPrefVector(sds) ==
    IF sds = <<>> THEN NoPref
    ELSE LET total_w == SumSeq([j \in DOMAIN sds |-> sds[j].weight])
             k == Len(sds[1].vec)
         IN  IF total_w <= 0 THEN NoPref
             ELSE [none |-> FALSE,
                   num |-> [i \in 1..k |->
                              SumSeq([j \in DOMAIN sds |->
                                         sds[j].weight * sds[j].vec[i]])],
                   den |-> total_w]

\* Python truthiness of pref: None and the empty list are falsy
PrefFalsy(p) == p.none \/ p.num = <<>>

----------------------------------------------------------------------------
(* _fetch_candidates: construction of the candidate query *)

PH == "%s"

SQL_SELECT ==
    "SELECT f.tconst, f.primary_title, f.english_title, f.start_year, f.average_rating, f.num_votes, feature_vec FROM analytics.int_titles_features f JOIN stg_title_basics b ON b.tconst = f.tconst WHERE "
SQL_VOTES   == "f.num_votes >= "
SQL_YEAR    == "f.start_year >= "
SQL_ADULT   == "COALESCE(f.f_is_adult, false) = false"
SQL_COL     == "f."
SQL_TRUE    == " = TRUE"
SQL_OR      == " OR "
SQL_AND     == " AND "
SQL_OPEN    == "("
SQL_CLOSE   == ")"
SQL_COMMA   == ","
SQL_EXCLUDE == "f.tconst <> ALL("
SQL_TYPE_EQ == " AND b.titleType = "
SQL_TYPE_IN == " AND b.titleType IN ("
SQL_LANG    == "EXISTS (SELECT 1 FROM stg_title_akas a WHERE a.titleId = f.tconst AND a.language = ANY("
SQL_REGION  == "EXISTS (SELECT 1 FROM stg_title_akas a WHERE a.titleId = f.tconst AND a.region = ANY("
SQL_END_ANY == "))"

\* the text the code itself can write into a query
StaticSql ==
    { PH, SQL_SELECT, SQL_VOTES, SQL_YEAR, SQL_ADULT, SQL_COL, SQL_TRUE,
      SQL_OR, SQL_AND, SQL_OPEN, SQL_CLOSE, SQL_COMMA, SQL_EXCLUDE,
      SQL_TYPE_EQ, SQL_TYPE_IN, SQL_LANG, SQL_REGION, SQL_END_ANY }

\* bound parameters, tagged with their Python type
IntP(n)  == [t |-> "int", v |-> n]
StrP(x)  == [t |-> "str", v |-> x]
ListP(l) == [t |-> "list", v |-> l]

\* sep.join(parts) on sequences of text fragments
RECURSIVE Join(_, _)
Join(parts, sep) ==
    IF parts = <<>> THEN <<>>
    ELSE IF Len(parts) = 1 THEN parts[1]
    ELSE parts[1] \o <<sep>> \o Join(Tail(parts), sep)

\* a builder that writes the genre tokens themselves into the text
GenreOrsRaw(genre_any) ==
    [i \in DOMAIN genre_any |-> <<SQL_COL>> \o genre_any[i] \o <<SQL_TRUE>>]

\* lines 197-203: one "f.<col> = TRUE" per genre token found in GENRE_TO_COL
GenreOrs(genre_any) ==
    LET cols == [i \in DOMAIN genre_any |-> ResolveGenre(genre_any[i])]
        IsCol(c) == c # NoCol
        found == SelectSeq(cols, IsCol)
    IN  [i \in DOMAIN found |-> <<SQL_COL, found[i], SQL_TRUE>>]

\* lines 192-193
AdultClause(include_adult) ==
    IF ~include_adult THEN << <<SQL_ADULT>> >> ELSE <<>>

\* lines 207-209
ExcludeClause(exclude_tconsts) ==
    IF exclude_tconsts # <<>>
    THEN [w |-> << <<SQL_EXCLUDE, PH, SQL_CLOSE>> >>,
          p |-> <<ListP(exclude_tconsts)>>]
    ELSE [w |-> <<>>, p |-> <<>>]

\* line 212
TitleTypes(title_types) ==
    IF title_types # <<>>
    THEN [i \in DOMAIN StrSplit(title_types) |-> StrStrip(StrSplit(title_types)[i])]
    ELSE <<>>

\* lines 213-221
TitleFilter(types) ==
    IF types = <<>> THEN [sql |-> <<>>, p |-> <<>>]
    ELSE IF Len(types) = 1
    THEN [sql |-> <<SQL_TYPE_EQ, PH>>, p |-> <<StrP(types[1])>>]
    ELSE [sql |-> <<SQL_TYPE_IN>>
                  \o Join([i \in DOMAIN types |-> <<PH>>], SQL_COMMA)
                  \o <<SQL_CLOSE>>,
          p |-> [i \in DOMAIN types |-> StrP(types[i])]]

\* lines 224-244
AkaFilters(lang_any, region_any) ==
    LET l == IF lang_any # <<>>
             THEN [f |-> << <<SQL_LANG, PH, SQL_END_ANY>> >>, p |-> <<ListP(lang_any)>>]
             ELSE [f |-> <<>>, p |-> <<>>]
        r == IF region_any # <<>>
             THEN [f |-> << <<SQL_REGION, PH, SQL_END_ANY>> >>, p |-> <<ListP(region_any)>>]
             ELSE [f |-> <<>>, p |-> <<>>]
        filters == l.f \o r.f
    IN  [w |-> IF filters # <<>>
               THEN << <<SQL_OPEN>> \o Join(filters, SQL_AND) \o <<SQL_CLOSE>> >>
               ELSE <<>>,
         p |-> l.p \o r.p]

\* since_year or 0, for an Optional[int] (<<>> is None)
OrZero(x) == IF x = <<>> THEN 0 ELSE x[1]

\* lines 188-259: the sql text and the params list given to cur.execute
BuildQuery(since_year, min_votes, genre_any, exclude_tconsts, title_types, lang_any, region_any, include_adult) ==
    LET ors   == IF genre_any # <<>> THEN GenreOrs(genre_any) ELSE <<>>
        genre == IF ors # <<>>
                 THEN << <<SQL_OPEN>> \o Join(ors, SQL_OR) \o <<SQL_CLOSE>> >>
                 ELSE <<>>
        excl  == ExcludeClause(exclude_tconsts)
        title == TitleFilter(TitleTypes(title_types))
        aka   == AkaFilters(lang_any, region_any)
        where == << <<SQL_VOTES, PH>>, <<SQL_YEAR, PH>> >>
                 \o AdultClause(include_adult) \o genre \o excl.w \o aka.w
    IN  [sql    |-> <<SQL_SELECT>> \o Join(where, SQL_AND) \o title.sql,
         params |-> <<IntP(min_votes), IntP(OrZero(since_year))>>
                    \o excl.p \o title.p \o aka.p]

----------------------------------------------------------------------------
(* cur.execute(sql, params) on the warehouse *)

\* the number of placeholders in q.sql[1..i]: the index of the parameter
\* bound to a placeholder at position i
NumPh(sql, i) == Cardinality({ j \in 1..i : sql[j] = PH })

ParamAt(q, i) == q.params[NumPh(q.sql, i)]

\* the Python type the server accepts for the placeholder at position i
ExpectedType(sql, i) ==
    IF sql[i-1] \in {SQL_VOTES, SQL_YEAR} THEN "int"
    ELSE IF sql[i-1] \in {SQL_EXCLUDE, SQL_LANG, SQL_REGION} THEN "list"
    ELSE "str"

\* execute() raises unless every placeholder has a parameter of a type the
\* comparison it stands in accepts
ExecOk(q) ==
    /\ NumPh(q.sql, Len(q.sql)) = Len(q.params)
    /\ \A i \in DOMAIN q.sql :
          q.sql[i] = PH => ParamAt(q, i).t = ExpectedType(q.sql, i)

\* the parameters of the IN (...) list that opens at position i
RECURSIVE InList(_, _)
InList(q, i) ==
    IF i > Len(q.sql) \/ q.sql[i] = SQL_CLOSE THEN {}
    ELSE (IF q.sql[i] = PH THEN {ParamAt(q, i).v} ELSE {}) \cup InList(q, i + 1)

\* the WHERE clause of an executable query, evaluated on one joined row
Matches(r, q) ==
    LET sql == q.sql
        genreCols == { sql[i+1] : i \in { j \in DOMAIN sql : sql[j] = SQL_COL } }
    IN  /\ \A i \in DOMAIN sql :
            /\ sql[i] = SQL_VOTES => r.num_votes >= ParamAt(q, i+1).v
            /\ sql[i] = SQL_YEAR => r.start_year >= ParamAt(q, i+1).v
            /\ sql[i] = SQL_ADULT => Coalesce(r.f_is_adult, FALSE) = FALSE
            /\ sql[i] = SQL_EXCLUDE => r.tconst \notin Range(ParamAt(q, i+1).v)
            /\ sql[i] = SQL_LANG =>
                  \E a \in r.akas : a.language \in Range(ParamAt(q, i+1).v)
            /\ sql[i] = SQL_REGION =>
                  \E a \in r.akas : a.region \in Range(ParamAt(q, i+1).v)
            /\ sql[i] = SQL_TYPE_EQ => r.titleType = ParamAt(q, i+1).v
            /\ sql[i] = SQL_TYPE_IN => r.titleType \in InList(q, i+1)
        /\ genreCols # {} => genreCols \cap r.g # {}

MatchingRows(q) == { r \in TitlesFeatures : Matches(r, q) }

\* lines 263-274: the dict built from one result row
Candidate(r) ==
    [tconst |-> r.tconst, primary_title |-> r.primary_title,
     english_title |-> r.english_title, start_year |-> r.start_year,
     average_rating |-> r.average_rating, num_votes |-> r.num_votes,
     vec |-> EnsureVec(PgJson(FEATURE_JSON_SQL(r))).value]

\* the orders in which the server may return a set of rows (no ORDER BY)
Orders(S) ==
    { o \in [1..Cardinality(S) -> S] : \A i, j \in DOMAIN o : i # j => o[i] # o[j] }

----------------------------------------------------------------------------
(* _cosine, scoring and ranking *)

Min(a, b) == IF a <= b THEN a ELSE b
Max(a, b) == IF a >= b THEN a ELSE b

\* sum(x*y for x, y in zip(a, b))
Dot(a, b) == SumSeq([i \in 1..Min(Len(a), Len(b)) |-> a[i] * b[i]])

\* _cosine without the test of lines 111-112: nsq = 0 is a division by zero
CosineUnguarded(p, b) ==
    [dot |-> Dot(p.num, b), nsq |-> Dot(p.num, p.num) * Dot(b, b)]

\* dot / (na * nb) for a = p.num / p.den, kept exact as dot / sqrt(nsq);
\* the positive factor p.den cancels
Cosine(p, b) ==
    LET dot == Dot(p.num, b)
        na2 == Dot(p.num, p.num)
        nb2 == Dot(b, b)
    IN  IF na2 = 0 \/ nb2 = 0 THEN [dot |-> 0, nsq |-> 1]
        ELSE [dot |-> dot, nsq |-> na2 * nb2]

ScorePositive(s) == s.dot > 0

\* x.dot / sqrt(x.nsq) > y.dot / sqrt(y.nsq)
ScoreGreater(x, y) ==
    IF x.dot >= 0 /\ y.dot >= 0 THEN x.dot * x.dot * y.nsq > y.dot * y.dot * x.nsq
    ELSE IF x.dot < 0 /\ y.dot < 0 THEN x.dot * x.dot * y.nsq < y.dot * y.dot * x.nsq
    ELSE x.dot >= 0 /\ y.dot < 0

ScoreEqual(x, y) == ~ScoreGreater(x, y) /\ ~ScoreGreater(y, x)

\* lines 328-340
ScoredItem(c, score) ==
    [tconst |-> c.tconst, primary_title |-> c.primary_title,
     english_title |-> c.english_title, start_year |-> c.start_year,
     average_rating |-> c.average_rating, num_votes |-> c.num_votes,
     score |-> score]

\* the scoring loop without the test score > 0 of line 331
ScoredAll(p, cs) ==
    [i \in DOMAIN cs |-> ScoredItem(cs[i], Cosine(p, cs[i].vec))]

Scored(p, cs) ==
    LET all == [i \in DOMAIN cs |-> ScoredItem(cs[i], Cosine(p, cs[i].vec))]
        Keep(x) == ScorePositive(x.score)
    IN  SelectSeq(all, Keep)

\* the key of scored.sort: x comes before y when it must
SortBefore(x, y) == ScoreGreater(x.score, y.score)

\* list.sort(key=..., reverse=True): stable, descending
RECURSIVE InsertSorted(_, _)
InsertSorted(sorted, x) ==
    IF sorted = <<>> THEN <<x>>
    ELSE IF SortBefore(x, Head(sorted)) THEN <<x>> \o sorted
    ELSE <<Head(sorted)>> \o InsertSorted(Tail(sorted), x)

RECURSIVE SortScored(_)
SortScored(s) ==
    IF s = <<>> THEN <<>>
    ELSE InsertSorted(SortScored(SubSeq(s, 1, Len(s) - 1)), s[Len(s)])

\* s[:k]
PySlice(s, k) ==
    IF k >= 0 THEN SubSeq(s, 1, Min(k, Len(s)))
    ELSE SubSeq(s, 1, Max(0, Len(s) + k))

\* lines 327-343
Results(p, cs, k) == PySlice(SortScored(Scored(p, cs)), k)

----------------------------------------------------------------------------
(* The endpoint GET /recs/for-me *)

DEFAULT_K          == 25
DEFAULT_MIN_VOTES  == 100
DEFAULT_SINCE_YEAR == 1900
DEFAULT_TITLE_TYPES == S_movie

\* bounds of the model
BatchSize    == 2
MaxSeeds     == 2
MaxOverrides == 1
SeedPoolSize == 2

Weights   == {-1, 1, 2}
SeedTitles == <<S_tt6, S_tt1, S_tt5, S_tt4>>
SeedPool  == 1..Min(SeedPoolSize, Len(SeedTitles))
Users     == {S_u1, S_u2}
KValues   == {-1, 1, DEFAULT_K}

G_SciFi      == <<"S","c","i","-","F","i">>
G_sci_fi_sp  == <<"s","c","i"," ","f","i">>
G_SCI_FI     == <<"S","C","I","-","F","I">>
G_ScienceFiction  == <<"S","c","i","e","n","c","e"," ","F","i","c","t","i","o","n">>
G_science_fiction == <<"s","c","i","e","n","c","e","-","f","i","c","t","i","o","n">>
G_Drama      == <<" ","D","r","a","m","a"," ">>
G_drama_inj  == <<"d","r","a","m","a",",","x","'",";","-","-">>
G_unknown    == <<"x","'">>

GenreInputs ==
    { <<>>, G_SciFi, G_sci_fi_sp, G_SCI_FI, G_ScienceFiction, G_science_fiction,
      G_Drama, G_drama_inj, G_unknown }
TitleTypeInputs == { DEFAULT_TITLE_TYPES, <<>>, S_movie \o <<",">> \o S_short }
LangInputs      == { <<>>, S_en }
RegionInputs    == { <<>>, S_US }
AdultInputs     == { "omitted", "true", "false" }
ExcludeInputs   == { <<>>, S_tt2 }

B2N(b) == IF b THEN 1 ELSE 0

\* how many filter parameters of r are not the default
Overrides(r) ==
    B2N(r.min_votes # DEFAULT_MIN_VOTES) + B2N(r.since_year # DEFAULT_SINCE_YEAR)
    + B2N(r.genre_any # <<>>) + B2N(r.title_types # DEFAULT_TITLE_TYPES)
    + B2N(r.orig_lang_any # <<>>) + B2N(r.aka_region_any # <<>>)
    + B2N(r.include_adult # "omitted") + B2N(r.exclude # <<>>)

\* the query strings a client sends; exclude is a parameter the handler's
\* signature does not declare
Requests ==
    { r \in [user_id : Users, k : KValues,
             min_votes : {DEFAULT_MIN_VOTES, 600},
             since_year : {DEFAULT_SINCE_YEAR, 2000},
             genre_any : GenreInputs, title_types : TitleTypeInputs,
             orig_lang_any : LangInputs, aka_region_any : RegionInputs,
             include_adult : AdultInputs, exclude : ExcludeInputs] :
        Overrides(r) <= MaxOverrides }

NoRequest ==
    [user_id |-> <<>>, k |-> DEFAULT_K, min_votes |-> DEFAULT_MIN_VOTES,
     since_year |-> DEFAULT_SINCE_YEAR, genre_any |-> <<>>,
     title_types |-> DEFAULT_TITLE_TYPES, orig_lang_any |-> <<>>,
     aka_region_any |-> <<>>, include_adult |-> "omitted", exclude |-> <<>>]

\* include_adult: bool = Query(False)
IncludeAdult(r) ==
    IF r.include_adult = "omitted" THEN FALSE ELSE r.include_adult = "true"

\* lines 298-300
GenreList(r)  == SplitStripList(r.genre_any)
LangList(r)   == SplitStripList(r.orig_lang_any)
RegionList(r) == SplitStripList(r.aka_region_any)

\* a handler that forgets the seeds when it calls _fetch_candidates
ExcludeListNone(sds) == <<>>

\* line 314
ExcludeList(sds) == [i \in DOMAIN sds |-> sds[i].tconst]

\* lines 315-325: the call of _fetch_candidates
CandidateQuery(r, sds) ==
    BuildQuery(<<r.since_year>>, r.min_votes, GenreList(r), ExcludeList(sds),
               r.title_types, LangList(r), RegionList(r), IncludeAdult(r))

DETAIL_NO_SEEDS == "No seeds found"
DETAIL_FOR_USER == " for user_id="
DETAIL_NO_SEEDS_TAIL == ". Insert into analytics.int_user_seed_preferences first."
DETAIL_INVALID == "Invalid seed weights or vectors"
DETAIL_SERVER_ERROR == "Internal Server Error"

NoResponse == [status |-> 0, detail |-> <<>>, user_id |-> <<>>, count |-> 0, results |-> <<>>]
HttpError(status, detail) ==
    [status |-> status, detail |-> detail, user_id |-> <<>>, count |-> 0, results |-> <<>>]
HttpOk(user_id, results) ==
    [status |-> 200, detail |-> <<>>, user_id |-> user_id,
     count |-> Len(results), results |-> results]

\* the missing seeds reported as a bad request
NoSeedsAsBadRequest(user_id) ==
    HttpError(400, <<DETAIL_NO_SEEDS, DETAIL_FOR_USER, user_id, DETAIL_NO_SEEDS_TAIL>>)

\* lines 305-308
NoSeedsError(user_id) ==
    HttpError(404, <<DETAIL_NO_SEEDS, DETAIL_FOR_USER, user_id, DETAIL_NO_SEEDS_TAIL>>)

\* line 312
InvalidWeightsError == HttpError(400, <<DETAIL_INVALID>>)

\* an exception that is no HTTPException leaves the handler
ServerError == HttpError(500, <<DETAIL_SERVER_ERROR>>)

NoQuery == [sql |-> <<>>, params |-> <<>>]

\* lines 176-186: the parameters of _fetch_candidates; title_types,
\* lang_any, region_any and include_adult may be omitted (<<>>, "omitted")
NoCall ==
    [since_year |-> <<>>, min_votes |-> 0, genre_any |-> <<>>,
     exclude_tconsts |-> <<>>, title_types |-> <<>>, lang_any |-> <<>>,
     region_any |-> <<>>, include_adult |-> "omitted"]

\* no file of the dataset is on disk (<<>> is a missing file, <<b>> a file
\* of content b); download_file is not running
NoFile == <<>>
EmptyDisk == [dest |-> NoFile, part |-> NoFile, sha256 |-> NoFile]
NoDownload ==
    [pc |-> "idle", resume |-> TRUE, overwrite |-> FALSE, range |-> <<>>,
     mode |-> "wb", existing |-> 0, status |-> 0, body |-> <<>>]

\* no helper has returned; TMDBClient._request is not running
NoRet == [raised |-> "", value |-> <<>>]
NoTmdb == [pc |-> "idle", attempt |-> 0, backoff |-> 0, outcomes |-> <<>>, slept |-> <<>>]

SeedRow(i, w) == [user_id |-> S_u1, tconst |-> SeedTitles[i], weight |-> w]

\* the seed tables: at most MaxSeeds rows for user u1, one row per title of
\* the pool, in the order of the pool
SeedTables ==
    { t \in UNION { [1..n -> { SeedRow(i, w) : i \in SeedPool, w \in Weights }] :
                     n \in 0..MaxSeeds } :
        \A a, b \in DOMAIN t : a < b =>
            \E i, j \in SeedPool :
               /\ i < j
               /\ t[a].tconst = SeedTitles[i]
               /\ t[b].tconst = SeedTitles[j] }

Init ==
    /\ seedTable \in SeedTables
    /\ pc = "idle"
    /\ req = NoRequest
    /\ conn = "none"
    /\ seeds = <<>>
    /\ pref = NoPref
    /\ query = NoQuery
    /\ cands = <<>>
    /\ response = NoResponse
    /\ io = <<>>
    /\ call = NoCall
    /\ ret = NoRet
    /\ tmdb = NoTmdb
    /\ disk = EmptyDisk
    /\ dl = NoDownload

\* a request arrives and FastAPI binds its parameters
Request(r) ==
    /\ pc = "idle"
    /\ req' = r
    /\ pc' = "connect"
    /\ UNCHANGED <<disk, dl, ret, tmdb, call, seedTable, conn, seeds, pref, query, cands, response, io>>

\* line 302: psycopg.connect(DB_DSN)
Connect ==
    /\ pc = "connect"
    /\ conn' = "open"
    /\ pc' = "fetch_seeds"
    /\ UNCHANGED <<disk, dl, ret, tmdb, call, seedTable, req, seeds, pref, query, cands, response, io>>

\* line 302 raises: no connection is made
ConnectFails ==
    /\ pc = "connect"
    /\ response' = ServerError
    /\ pc' = "done"
    /\ UNCHANGED <<disk, dl, ret, tmdb, call, seedTable, req, conn, seeds, pref, query, cands, io>>

\* line 303
FetchSeedsStep ==
    /\ pc = "fetch_seeds"
    /\ io' = Append(io, "seeds")
    /\ seeds' = FetchSeeds(seedTable, req.user_id)
    /\ pc' = "check_seeds"
    /\ UNCHANGED <<disk, dl, ret, tmdb, call, seedTable, req, conn, pref, query, cands, response>>

\* line 303 raises (store error); the with block closes the connection
FetchSeedsFails ==
    /\ pc = "fetch_seeds"
    /\ io' = Append(io, "seeds")
    /\ conn' = "closed"
    /\ response' = ServerError
    /\ pc' = "done"
    /\ UNCHANGED <<disk, dl, ret, tmdb, call, seedTable, req, seeds, pref, query, cands>>

\* lines 304-308
NoSeeds ==
    /\ pc = "check_seeds"
    /\ seeds = <<>>
    /\ conn' = "closed"
    /\ response' = NoSeedsError(req.user_id)
    /\ pc' = "done"
    /\ UNCHANGED <<disk, dl, ret, tmdb, call, seedTable, req, seeds, pref, query, cands, io>>

\* line 310
BuildPref ==
    /\ pc = "check_seeds"
    /\ seeds # <<>>
    /\ pref' = BuildPrefVector(seeds)
    /\ pc' = "check_pref"
    /\ UNCHANGED <<disk, dl, ret, tmdb, call, seedTable, req, conn, seeds, query, cands, response, io>>

\* a handler that tests pref only after it has fetched the candidates
InvalidWeightsAfterFetch ==
    /\ pc = "check_pref"
    /\ PrefFalsy(pref)
    /\ query' = CandidateQuery(req, seeds)
    /\ io' = Append(io, "candidates")
    /\ conn' = "closed"
    /\ response' = InvalidWeightsError
    /\ pc' = "done"
    /\ UNCHANGED <<disk, dl, ret, tmdb, call, seedTable, req, seeds, pref, cands>>

\* lines 311-312
InvalidWeights ==
    /\ pc = "check_pref"
    /\ PrefFalsy(pref)
    /\ conn' = "closed"
    /\ response' = InvalidWeightsError
    /\ pc' = "done"
    /\ UNCHANGED <<disk, dl, ret, tmdb, call, seedTable, req, seeds, pref, query, cands, io>>

\* lines 314-325 and 260-274: the query is built and executed, the rows
\* come back in an order the server chooses, the with block closes
FetchCandidates ==
    /\ pc = "check_pref"
    /\ ~PrefFalsy(pref)
    /\ LET q == CandidateQuery(req, seeds)
       IN  /\ query' = q
           /\ ExecOk(q)
           /\ \E o \in Orders(MatchingRows(q)) :
                 cands' = [i \in DOMAIN o |-> Candidate(o[i])]
    /\ io' = Append(io, "candidates")
    /\ conn' = "closed"
    /\ pc' = "score"
    /\ UNCHANGED <<disk, dl, ret, tmdb, call, seedTable, req, seeds, pref, response>>

\* a handler that leaves the connection open when the candidate query raises
FetchCandidatesFailsLeak ==
    /\ pc = "check_pref"
    /\ ~PrefFalsy(pref)
    /\ query' = CandidateQuery(req, seeds)
    /\ io' = Append(io, "candidates")
    /\ response' = ServerError
    /\ pc' = "done"
    /\ UNCHANGED <<disk, dl, ret, tmdb, call, seedTable, req, conn, seeds, pref, cands>>

\* a handler that scores the rows it received before the store failed
FetchCandidatesFailsPartial ==
    /\ pc = "check_pref"
    /\ ~PrefFalsy(pref)
    /\ LET q == CandidateQuery(req, seeds)
       IN  /\ query' = q
           /\ ExecOk(q)
           /\ \E o \in Orders(MatchingRows(q)) : \E n \in 0..(Len(o) - 1) :
                 cands' = [i \in 1..n |-> Candidate(o[i])]
    /\ io' = Append(io, "candidates")
    /\ conn' = "closed"
    /\ pc' = "score"
    /\ UNCHANGED <<disk, dl, ret, tmdb, call, seedTable, req, seeds, pref, response>>

\* cur.execute raises: the parameters do not fit the placeholders, or the
\* store fails
FetchCandidatesFails ==
    /\ pc = "check_pref"
    /\ ~PrefFalsy(pref)
    /\ query' = CandidateQuery(req, seeds)
    /\ io' = Append(io, "candidates")
    /\ conn' = "closed"
    /\ response' = ServerError
    /\ pc' = "done"
    /\ UNCHANGED <<disk, dl, ret, tmdb, call, seedTable, req, seeds, pref, cands>>

\* lines 327-343
ScoreAndRank ==
    /\ pc = "score"
    /\ response' = HttpOk(req.user_id, Results(pref, cands, req.k))
    /\ pc' = "done"
    /\ UNCHANGED <<disk, dl, ret, tmdb, call, seedTable, req, conn, seeds, pref, query, cands, io>>

\* the response is sent; the handler's locals are gone
Finish ==
    /\ pc = "done"
    /\ pc' = "idle"
    /\ req' = NoRequest
    /\ conn' = "none"
    /\ seeds' = <<>>
    /\ pref' = NoPref
    /\ query' = NoQuery
    /\ cands' = <<>>
    /\ response' = NoResponse
    /\ io' = <<>>
    /\ UNCHANGED <<disk, dl, ret, tmdb, call, seedTable>>

Next ==
    \/ pc = "idle" /\ \E r \in Requests : Request(r)
    \/ Connect
    \/ ConnectFails
    \/ FetchSeedsStep
    \/ FetchSeedsFails
    \/ NoSeeds
    \/ BuildPref
    \/ InvalidWeights
    \/ FetchCandidates
    \/ FetchCandidatesFails
    \/ ScoreAndRank
    \/ Finish

Spec == Init /\ [][Next]_vars

----------------------------------------------------------------------------
(* _fetch_candidates called on its own, with its own defaults *)

FetchCalls ==
    [since_year : {<<>>, <<2000>>}, min_votes : {DEFAULT_MIN_VOTES, 600},
     genre_any : {<<>>, <<G_Drama>>, <<G_sci_fi_sp>>},
     exclude_tconsts : {<<>>, <<S_tt1, S_tt3>>},
     title_types : {<<>>, S_movie},
     lang_any : {<<>>, <<S_en>>}, region_any : {<<>>, <<S_US>>},
     include_adult : AdultInputs]

\* line 185: include_adult: bool = True
CallIncludeAdult(c) ==
    IF c.include_adult = "omitted" THEN TRUE ELSE c.include_adult = "true"

CallQuery(c) ==
    BuildQuery(c.since_year, c.min_votes, c.genre_any, c.exclude_tconsts,
               c.title_types, c.lang_any, c.region_any, CallIncludeAdult(c))

\* _fetch_candidates(conn, ...) is entered
Call(c) ==
    /\ pc = "idle"
    /\ call' = c
    /\ conn' = "open"
    /\ pc' = "called"
    /\ UNCHANGED <<disk, dl, ret, tmdb, seedTable, req, seeds, pref, query, cands, response, io>>

\* lines 188-274
CallReturns ==
    /\ pc = "called"
    /\ LET q == CallQuery(call)
       IN  /\ query' = q
           /\ ExecOk(q)
           /\ \E o \in Orders(MatchingRows(q)) :
                 cands' = [i \in DOMAIN o |-> Candidate(o[i])]
    /\ io' = Append(io, "candidates")
    /\ pc' = "returned"
    /\ UNCHANGED <<disk, dl, ret, tmdb, call, seedTable, req, conn, seeds, pref, response>>

\* cur.execute raises
CallRaises ==
    /\ pc = "called"
    /\ query' = CallQuery(call)
    /\ io' = Append(io, "candidates")
    /\ pc' = "raised"
    /\ UNCHANGED <<disk, dl, ret, tmdb, call, seedTable, req, conn, seeds, pref, cands, response>>

CallEnds ==
    /\ pc \in {"returned", "raised"}
    /\ pc' = "idle"
    /\ call' = NoCall
    /\ conn' = "none"
    /\ query' = NoQuery
    /\ cands' = <<>>
    /\ io' = <<>>
    /\ UNCHANGED <<disk, dl, ret, tmdb, seedTable, req, seeds, pref, response>>

InitFetch == Init /\ seedTable = <<>>

NextFetch ==
    \/ pc = "idle" /\ \E c \in FetchCalls : Call(c)
    \/ CallReturns
    \/ CallRaises
    \/ CallEnds

SpecFetch == InitFetch /\ [][NextFetch]_vars

----------------------------------------------------------------------------
(* A stored vector decoded by _ensure_vec and scored by _cosine, as lines  *)
(* 271 and 330 do for each candidate row                                   *)

MaxVecLen == 2

RawElems == { PyNum(0), PyNum(1), PyNone, PyWord }
SeqsUpTo(S, n) == UNION { [1..m -> S] : m \in 0..n }

T_pair     == <<"[","1",",","0","]">>
T_spaced   == <<" ","[","0",","," ","1","]">>
T_one      == <<"[","1","]">>
T_twelve   == <<"[","1","2",",","0","]">>
T_empty    == <<"[","]">>
T_object   == <<"{","}">>
T_scalar   == <<"7">>
T_null     == <<"[","1",",","n","u","l","l","]">>
T_word     == <<"[","1",",","\"","a","\"","]">>
T_cut      == <<"[","1",",">>
B_pair     == <<91, 49, 44, 48, 93>>
B_one      == <<91, 49, 93>>
B_bad      == <<91, 255, 93>>

\* the values a driver may hand to _ensure_vec
RawVectors ==
    { [t |-> t, v |-> l] : t \in {"list", "tuple"}, l \in SeqsUpTo(RawElems, MaxVecLen) }
    \cup { [t |-> "str", v |-> x] :
             x \in { T_pair, T_spaced, T_one, T_twelve, T_empty, T_object,
                     T_scalar, T_null, T_word, T_cut } }
    \cup { [t |-> t, v |-> b] : t \in {"bytes", "memoryview"}, b \in {B_pair, B_one, B_bad} }
    \cup { [t |-> "other", v |-> <<>>] }

\* the preference vectors they are scored against
PrefVectors == SeqsUpTo({0, 1}, MaxVecLen)

NoVecCall == [raw |-> [t |-> "other", v |-> <<>>], a |-> <<>>]

InitVec ==
    /\ seedTable = <<>>
    /\ pc = "idle"
    /\ req = NoRequest
    /\ conn = "none"
    /\ seeds = <<>>
    /\ pref = NoPref
    /\ query = NoQuery
    /\ cands = <<>>
    /\ response = NoResponse
    /\ io = <<>>
    /\ call = NoVecCall
    /\ ret = NoRet
    /\ tmdb = NoTmdb
    /\ disk = EmptyDisk
    /\ dl = NoDownload

\* a row with the stored vector raw arrives while the preference is a
VecCall(raw, a) ==
    /\ pc = "idle"
    /\ call' = [raw |-> raw, a |-> a]
    /\ pc' = "decode"
    /\ UNCHANGED <<disk, dl, ret, tmdb, seedTable, req, conn, seeds, pref, query, cands, response, io>>

\* line 271: _ensure_vec(r[6]) returns
VecDecoded ==
    /\ pc = "decode"
    /\ EnsureVec(call.raw).raised = ""
    /\ ret' = [EnsureVec(call.raw) EXCEPT !.value = [vec |-> @, score |-> [dot |-> 0, nsq |-> 1]]]
    /\ pc' = "decoded"
    /\ UNCHANGED <<disk, dl, tmdb, call, seedTable, req, conn, seeds, pref, query, cands, response, io>>

\* line 271: _ensure_vec(r[6]) raises
VecDecodeRaises ==
    /\ pc = "decode"
    /\ EnsureVec(call.raw).raised # ""
    /\ ret' = EnsureVec(call.raw)
    /\ pc' = "raised"
    /\ UNCHANGED <<disk, dl, tmdb, call, seedTable, req, conn, seeds, pref, query, cands, response, io>>

\* line 330: _cosine(pref, c["vec"])
VecScored ==
    /\ pc = "decoded"
    /\ ret' = [ret EXCEPT !.value.score =
                  Cosine([none |-> FALSE, num |-> call.a, den |-> 1], ret.value.vec)]
    /\ pc' = "scored"
    /\ UNCHANGED <<disk, dl, tmdb, call, seedTable, req, conn, seeds, pref, query, cands, response, io>>

VecEnds ==
    /\ pc \in {"raised", "scored"}
    /\ pc' = "idle"
    /\ call' = NoVecCall
    /\ ret' = NoRet
    /\ UNCHANGED <<disk, dl, tmdb, seedTable, req, conn, seeds, pref, query, cands, response, io>>

NextVec ==
    \/ pc = "idle" /\ \E raw \in RawVectors, a \in PrefVectors : VecCall(raw, a)
    \/ VecDecoded
    \/ VecDecodeRaises
    \/ VecScored
    \/ VecEnds

SpecVec == InitVec /\ [][NextVec]_vars

----------------------------------------------------------------------------
(* TMDBClient._request (backend/app/tmdb.py): the retry loop.  Times are   *)
(* counted in half seconds, so the first backoff of 0.5s is 1.             *)

MAX_RETRIES   == 3
FIRST_BACKOFF == 1

\* line 98
RETRY_STATUSES == {429, 500, 502, 503, 504}

H_three == <<"3">>
H_date  == <<"W","e","d",","," ","2","1"," ","O","c","t">>

\* what one attempt may end with: a network error, or a response with a
\* status and perhaps a Retry-After header (<<>>: no header)
Statuses == {200, 404, 429, 500, 501, 503}
Outcomes ==
    { [kind |-> "neterr", status |-> 0, retry_after |-> <<>>] }
    \cup { [kind |-> "resp", status |-> st, retry_after |-> h] :
             st \in Statuses, h \in {<<>>, H_three, H_date} }

\* float(text) for a header value, in half seconds
FloatOk(text) == text # <<>> /\ \A i \in DOMAIN text : IsDigit(text[i])
FloatOf(text) == 2 * ParseNat(text)

\* lines 74-82
TmdbRequest ==
    /\ tmdb.pc = "idle"
    /\ tmdb' = [pc |-> "loop", attempt |-> 0, backoff |-> FIRST_BACKOFF,
                outcomes |-> <<>>, slept |-> <<>>]
    /\ UNCHANGED <<disk, dl, ret, seedTable, pc, req, conn, seeds, pref, query, cands, response, io, call>>

\* lines 84-94: the request raises httpx.RequestError and is retried
TmdbNetworkErrorRetry ==
    /\ tmdb.pc = "loop"
    /\ tmdb.attempt + 1 <= MAX_RETRIES
    /\ tmdb' = [tmdb EXCEPT
                  !.attempt = @ + 1,
                  !.outcomes = Append(@, [kind |-> "neterr", status |-> 0, retry_after |-> <<>>]),
                  !.slept = Append(@, tmdb.backoff),
                  !.backoff = 2 * @]
    /\ UNCHANGED <<disk, dl, ret, seedTable, pc, req, conn, seeds, pref, query, cands, response, io, call>>

\* lines 84-88 and 95: the error is raised again
TmdbNetworkErrorRaises ==
    /\ tmdb.pc = "loop"
    /\ ~(tmdb.attempt + 1 <= MAX_RETRIES)
    /\ tmdb' = [tmdb EXCEPT
                  !.pc = "raised",
                  !.attempt = @ + 1,
                  !.outcomes = Append(@, [kind |-> "neterr", status |-> 0, retry_after |-> <<>>])]
    /\ ret' = Raised("RequestError")
    /\ UNCHANGED <<disk, dl, seedTable, pc, req, conn, seeds, pref, query, cands, response, io, call>>

\* lines 98-104: a response that is retried after Retry-After or the backoff
TmdbResponseRetry(o) ==
    /\ tmdb.pc = "loop"
    /\ o.kind = "resp"
    /\ o.status \in RETRY_STATUSES /\ tmdb.attempt + 1 <= MAX_RETRIES
    /\ o.retry_after = <<>> \/ FloatOk(o.retry_after)
    /\ tmdb' = [tmdb EXCEPT
                  !.attempt = @ + 1,
                  !.outcomes = Append(@, o),
                  !.slept = Append(@, IF o.retry_after = <<>> THEN tmdb.backoff
                                      ELSE FloatOf(o.retry_after)),
                  !.backoff = 2 * @]
    /\ UNCHANGED <<disk, dl, ret, seedTable, pc, req, conn, seeds, pref, query, cands, response, io, call>>

\* line 99: float() of a Retry-After header that is no number raises
TmdbRetryAfterRaises(o) ==
    /\ tmdb.pc = "loop"
    /\ o.kind = "resp"
    /\ o.status \in RETRY_STATUSES /\ tmdb.attempt + 1 <= MAX_RETRIES
    /\ o.retry_after # <<>> /\ ~FloatOk(o.retry_after)
    /\ tmdb' = [tmdb EXCEPT
                  !.pc = "raised", !.attempt = @ + 1, !.outcomes = Append(@, o)]
    /\ ret' = Raised("ValueError")
    /\ UNCHANGED <<disk, dl, seedTable, pc, req, conn, seeds, pref, query, cands, response, io, call>>

\* lines 106-116: any other response of status 400 or more is raised
TmdbStatusRaises(o) ==
    /\ tmdb.pc = "loop"
    /\ o.kind = "resp"
    /\ ~(o.status \in RETRY_STATUSES /\ tmdb.attempt + 1 <= MAX_RETRIES)
    /\ o.status >= 400
    /\ tmdb' = [tmdb EXCEPT
                  !.pc = "raised", !.attempt = @ + 1, !.outcomes = Append(@, o)]
    /\ ret' = Raised("HTTPStatusError")
    /\ UNCHANGED <<disk, dl, seedTable, pc, req, conn, seeds, pref, query, cands, response, io, call>>

\* line 118
TmdbReturns(o) ==
    /\ tmdb.pc = "loop"
    /\ o.kind = "resp"
    /\ ~(o.status \in RETRY_STATUSES /\ tmdb.attempt + 1 <= MAX_RETRIES)
    /\ o.status < 400
    /\ tmdb' = [tmdb EXCEPT
                  !.pc = "returned", !.attempt = @ + 1, !.outcomes = Append(@, o)]
    /\ ret' = Returned(<<o.status>>)
    /\ UNCHANGED <<disk, dl, seedTable, pc, req, conn, seeds, pref, query, cands, response, io, call>>

\* the caller has the result; the locals are gone
TmdbEnds ==
    /\ tmdb.pc \in {"raised", "returned"}
    /\ tmdb' = NoTmdb
    /\ ret' = NoRet
    /\ UNCHANGED <<disk, dl, seedTable, pc, req, conn, seeds, pref, query, cands, response, io, call>>

InitTmdb == Init /\ seedTable = <<>>

NextTmdb ==
    \/ TmdbRequest
    \/ TmdbNetworkErrorRetry
    \/ TmdbNetworkErrorRaises
    \/ \E o \in Outcomes : TmdbResponseRetry(o)
    \/ \E o \in Outcomes : TmdbRetryAfterRaises(o)
    \/ \E o \in Outcomes : TmdbStatusRaises(o)
    \/ \E o \in Outcomes : TmdbReturns(o)
    \/ TmdbEnds

SpecTmdb == InitTmdb /\ [][NextTmdb]_vars

----------------------------------------------------------------------------
(* download_file and validate_gzip (etl/imdb_fetch.py) for one dataset.     *)
(* A file is a sequence of bytes: 31, 139 are the gzip magic, 7 stands for *)
(* a block of compressed data that reads as 64 bytes, 9 for the end of the *)
(* gzip stream; anything else is no gzip data.                             *)

MaxFileLen == 7

\* line 132: gz.read(64), one block
TINY_READ == 1

GZIP_MAGIC == <<31, 139>>

\* the dataset as the server holds it, and a body that is no gzip file
ServerFile == <<31, 139, 7, 9>>
JunkBody   == <<60, 104>>

\* lines 131-132: read n blocks of the gzip stream from byte i on
RECURSIVE GzRead(_, _, _)
GzRead(bytes, i, n) ==
    IF n = 0 THEN ""
    ELSE IF i > Len(bytes) THEN "EOFError"
    ELSE IF bytes[i] = 9 THEN ""
    ELSE IF bytes[i] = 7 THEN GzRead(bytes, i + 1, n - 1)
    ELSE "BadGzipFile"

\* lines 120-135: (ok, err_msg)
validate_gzip(bytes) ==
    IF SubSeq(bytes, 1, Min(2, Len(bytes))) # GZIP_MAGIC
    THEN [ok |-> FALSE, err |-> "Missing gzip magic bytes"]
    ELSE LET e == GzRead(bytes, 3, TINY_READ)
         IN  [ok |-> e = "", err |-> e]

\* lines 112-117: the digest stands for the content it was taken of
sha256_file(bytes) == [sha256_of |-> bytes]

\* what the server may answer to a GET with the Range header range
\* (<<>>: no header, <<n>>: bytes=n-)
Responses(range) ==
    { [status |-> 200, body |-> ServerFile], [status |-> 200, body |-> JunkBody],
      [status |-> 404, body |-> <<>>], [status |-> 503, body |-> <<>>] }
    \cup (IF range # <<>> THEN { [status |-> 416, body |-> <<>>] } ELSE {})
    \cup (IF range # <<>> /\ range[1] < Len(ServerFile)
          THEN { [status |-> 206,
                  body |-> SubSeq(ServerFile, range[1] + 1, Len(ServerFile))] }
          ELSE {})

\* the content open(part, mode) starts from
Opened(mode) ==
    IF mode = "ab" /\ disk.part # NoFile THEN disk.part[1] ELSE <<>>

\* lines 144-146
DlSkips(resume, overwrite) ==
    /\ dl.pc = "idle"
    /\ disk.dest # NoFile /\ ~overwrite
    /\ dl' = [NoDownload EXCEPT !.pc = "skipped", !.resume = resume,
                                !.overwrite = overwrite]
    /\ UNCHANGED <<disk, ret, tmdb, seedTable, pc, req, conn, seeds, pref, query, cands, response, io, call>>

\* lines 142-155
DlStarts(resume, overwrite) ==
    /\ dl.pc = "idle"
    /\ ~(disk.dest # NoFile /\ ~overwrite)
    /\ LET resuming == resume /\ disk.part # NoFile
       IN  dl' = [NoDownload EXCEPT
                    !.pc = "get", !.resume = resume, !.overwrite = overwrite,
                    !.existing = IF resuming THEN Len(disk.part[1]) ELSE 0,
                    !.range = IF resuming THEN <<Len(disk.part[1])>> ELSE <<>>,
                    !.mode = IF resuming THEN "ab" ELSE "wb"]
    /\ UNCHANGED <<disk, ret, tmdb, seedTable, pc, req, conn, seeds, pref, query, cands, response, io, call>>

\* lines 157-164: 416, the part file is dropped and the GET sent again
\* without Range
DlRangeNotSatisfiable ==
    /\ dl.pc = "get"
    /\ [status |-> 416, body |-> <<>>] \in Responses(dl.range)
    /\ disk' = [disk EXCEPT !.part = NoFile]
    /\ dl' = [dl EXCEPT !.existing = 0, !.range = <<>>]
    /\ UNCHANGED <<ret, tmdb, seedTable, pc, req, conn, seeds, pref, query, cands, response, io, call>>

\* line 166: raise_for_status()
DlHttpError(r) ==
    /\ dl.pc = "get"
    /\ r \in Responses(dl.range)
    /\ r.status >= 400 /\ r.status # 416
    /\ dl' = [dl EXCEPT !.pc = "failed", !.status = r.status]
    /\ ret' = Raised("HTTPError")
    /\ UNCHANGED <<disk, tmdb, seedTable, pc, req, conn, seeds, pref, query, cands, response, io, call>>

\* lines 157-170: a response to stream
DlResponse(r) ==
    /\ dl.pc = "get"
    /\ r \in Responses(dl.range)
    /\ r.status < 400
    /\ dl' = [dl EXCEPT !.pc = "stream", !.status = r.status, !.body = r.body]
    /\ UNCHANGED <<disk, ret, tmdb, seedTable, pc, req, conn, seeds, pref, query, cands, response, io, call>>

\* lines 173-180: every chunk is written to the part file
DlStreamCompletes ==
    /\ dl.pc = "stream"
    /\ Len(Opened(dl.mode) \o dl.body) <= MaxFileLen
    /\ disk' = [disk EXCEPT !.part = <<Opened(dl.mode) \o dl.body>>]
    /\ dl' = [dl EXCEPT !.pc = "rename"]
    /\ UNCHANGED <<ret, tmdb, seedTable, pc, req, conn, seeds, pref, query, cands, response, io, call>>

\* lines 173-180: the connection breaks after n bytes
DlStreamBreaks(n) ==
    /\ dl.pc = "stream"
    /\ n < Len(dl.body)
    /\ Len(Opened(dl.mode)) + n <= MaxFileLen
    /\ disk' = [disk EXCEPT !.part = <<Opened(dl.mode) \o SubSeq(dl.body, 1, n)>>]
    /\ dl' = [dl EXCEPT !.pc = "failed"]
    /\ ret' = Raised("ConnectionError")
    /\ UNCHANGED <<tmdb, seedTable, pc, req, conn, seeds, pref, query, cands, response, io, call>>

\* line 183: part.rename(dest)
DlRename ==
    /\ dl.pc = "rename"
    /\ disk' = [disk EXCEPT !.dest = disk.part, !.part = NoFile]
    /\ dl' = [dl EXCEPT !.pc = "validate"]
    /\ UNCHANGED <<ret, tmdb, seedTable, pc, req, conn, seeds, pref, query, cands, response, io, call>>

\* lines 186-191: the file is valid, its checksum is written
DlValidated ==
    /\ dl.pc = "validate"
    /\ validate_gzip(disk.dest[1]).ok
    /\ disk' = [disk EXCEPT !.sha256 = <<sha256_file(disk.dest[1])>>]
    /\ dl' = [dl EXCEPT !.pc = "done"]
    /\ ret' = Returned(<<>>)
    /\ UNCHANGED <<tmdb, seedTable, pc, req, conn, seeds, pref, query, cands, response, io, call>>

\* lines 186-188: RuntimeError
DlValidationFails ==
    /\ dl.pc = "validate"
    /\ ~validate_gzip(disk.dest[1]).ok
    /\ dl' = [dl EXCEPT !.pc = "failed"]
    /\ ret' = Raised("RuntimeError")
    /\ UNCHANGED <<disk, tmdb, seedTable, pc, req, conn, seeds, pref, query, cands, response, io, call>>

\* the run is over (main returns or exits)
DlEnds ==
    /\ dl.pc \in {"skipped", "done", "failed"}
    /\ dl' = NoDownload
    /\ ret' = NoRet
    /\ UNCHANGED <<disk, tmdb, seedTable, pc, req, conn, seeds, pref, query, cands, response, io, call>>

InitDownload == Init /\ seedTable = <<>>

\* the runs considered: with or without resume, never with --overwrite
ResumeFlags    == BOOLEAN
OverwriteFlags == {FALSE}

NextDownload ==
    \/ \E resume \in ResumeFlags, overwrite \in OverwriteFlags : DlSkips(resume, overwrite)
    \/ \E resume \in ResumeFlags, overwrite \in OverwriteFlags : DlStarts(resume, overwrite)
    \/ DlRangeNotSatisfiable
    \/ \E r \in Responses(dl.range) : DlHttpError(r)
    \/ \E r \in Responses(dl.range) : DlResponse(r)
    \/ DlStreamCompletes
    \/ \E n \in 0..MaxFileLen : DlStreamBreaks(n)
    \/ DlRename
    \/ DlValidated
    \/ DlValidationFails
    \/ DlEnds

SpecDownload == InitDownload /\ [][NextDownload]_vars

----------------------------------------------------------------------------
(* _dsn (backend/app/recs.py): the DSN of the analytics database.  DSNs    *)
(* are sequences of characters.                                            *)

\* s.find(needle): the lowest index where needle occurs in s, 0 when it
\* does not occur
Find(s, needle) ==
    LET hits == { i \in 1..(Len(s) - Len(needle) + 1) :
                    SubSeq(s, i, i + Len(needle) - 1) = needle }
    IN IF hits = {} THEN 0 ELSE CHOOSE i \in hits : \A j \in hits : i <= j

\* needle in s
Contains(s, needle) == Find(s, needle) # 0

\* s.replace(old, new) for a non-empty old: every occurrence, left to right
RECURSIVE Replace(_, _, _)
Replace(s, old, new) ==
    LET i == Find(s, old)
    IN IF i = 0 THEN s
       ELSE SubSeq(s, 1, i - 1) \o new
               \o Replace(SubSeq(s, i + Len(old), Len(s)), old, new)

_normalize_local_to_db(s) ==
    LET
        N_localhost_port == <<"@", "l", "o", "c", "a", "l", "h", "o", "s", "t", ":">>
        N_loopback_port  == <<"@", "1", "2", "7", ".", "0", ".", "0", ".", "1", ":">>
        N_localhost_path == <<"@", "l", "o", "c", "a", "l", "h", "o", "s", "t", "/">>
        N_loopback_path  == <<"@", "1", "2", "7", ".", "0", ".", "0", ".", "1", "/">>
        R_db_port        == <<"@", "d", "b", ":", "5", "4", "3", "2", ":">>
        R_db_path        == <<"@", "d", "b", ":", "5", "4", "3", "2", "/">>
    IN
    IF Contains(s, N_localhost_port) THEN Replace(s, N_localhost_port, R_db_port)
    ELSE IF Contains(s, N_loopback_port) THEN Replace(s, N_loopback_port, R_db_port)
    ELSE IF Contains(s, N_localhost_path) THEN Replace(s, N_localhost_path, R_db_path)
    ELSE IF Contains(s, N_loopback_path) THEN Replace(s, N_loopback_path, R_db_path)
    ELSE s

DEFAULT_DSN ==
    <<"p", "o", "s", "t", "g", "r", "e", "s", "q", "l", ":", "/", "/",
    "c", "i", "n", "e", "g", "r", "a", "p", "h", "_", "u", "s", "e", "r",
    ":", "c", "h", "a", "n", "g", "e", "m", "e", "_", "s", "t", "r", "o",
    "n", "g", "_", "p", "a", "s", "s", "w", "o", "r", "d", "@", "d", "b",
    ":", "5", "4", "3", "2", "/", "c", "i", "n", "e", "g", "r", "a", "p",
    "h">>

\* os.getenv(name): <<>> is None (the variable is unset), <<s>> the value s
Unset == <<>>

\* a or b for a value of os.getenv and a str: None and "" are falsy
GetenvOr(v, other) == IF v = Unset \/ v[1] = <<>> THEN other ELSE v[1]

_dsn(analytics, database) ==
    LET dsn == _normalize_local_to_db(GetenvOr(analytics, GetenvOr(database, <<>>)))
    IN IF dsn = <<>> THEN DEFAULT_DSN ELSE dsn

\* the DSNs considered: scheme and credentials, host, port (<<>> when the
\* DSN names none), path
H_local    == <<"l", "o", "c", "a", "l", "h", "o", "s", "t">>
H_loopback == <<"1", "2", "7", ".", "0", ".", "0", ".", "1">>
H_db       == <<"d", "b">>
P_5432     == <<"5", "4", "3", "2">>
P_5433     == <<"5", "4", "3", "3">>
DsnHeads == {<<"p", "g", ":", "/", "/", "u", ":", "p", "@">>, <<"p", "g", ":", "/", "/">>}
DsnHosts == {H_local, H_loopback, H_db}
DsnPorts == {<<>>, P_5432, P_5433}
DsnPaths == {<<>>, <<"/", "c", "g">>}
DsnParts == [head : DsnHeads, host : DsnHosts, port : DsnPorts, path : DsnPaths]

DsnText(d) ==
    d.head \o d.host \o (IF d.port = <<>> THEN <<>> ELSE <<":">> \o d.port) \o d.path

EnvValues == {Unset, <<<<>>>>} \cup { <<DsnText(d)>> : d \in DsnParts }

\* the module is imported: _dsn reads the environment
DsnReadsEnv(analytics, database) ==
    /\ pc = "idle"
    /\ pc' = "dsn"
    /\ call' = [ANALYTICS_DSN |-> analytics, DATABASE_URL |-> database]
    /\ UNCHANGED <<disk, dl, ret, tmdb, seedTable, req, conn, seeds, pref, query, cands, response, io>>

\* DB_DSN = _dsn()
DsnReturns ==
    /\ pc = "dsn"
    /\ pc' = "dsn_done"
    /\ ret' = Returned(_dsn(call.ANALYTICS_DSN, call.DATABASE_URL))
    /\ UNCHANGED <<disk, dl, tmdb, seedTable, req, conn, seeds, pref, query, cands, response, io, call>>

InitDsn == Init /\ seedTable = <<>>

NextDsn ==
    \/ \E analytics \in EnvValues, database \in EnvValues : DsnReadsEnv(analytics, database)
    \/ DsnReturns

SpecDsn == InitDsn /\ [][NextDsn]_vars

----------------------------------------------------------------------------
(* Properties *)

Responded == pc = "done" /\ response.status = 200

ResultIds == { response.results[i].tconst : i \in DOMAIN response.results }

\* the item ids of the seed rows the store holds for the user of the request
SeedIds ==
    { seedTable[i].tconst :
        i \in { j \in DOMAIN seedTable : seedTable[j].user_id = req.user_id } }

\* the candidate query of the request in progress, without its exclusion clause
UnexcludedQuery ==
    BuildQuery(<<req.since_year>>, req.min_votes, GenreList(req), <<>>,
               req.title_types, LangList(req), RegionList(req), IncludeAdult(req))

\* C1: no returned item is a seed of the user, and the candidate query
\* carries the seed ids as its exclusion list
C1_SeedsExcluded ==
    /\ Responded => ResultIds \cap SeedIds = {}
    /\ query # NoQuery =>
          \E i \in DOMAIN query.sql :
             /\ query.sql[i] = SQL_EXCLUDE
             /\ ParamAt(query, i + 1).t = "list"
             /\ Range(ParamAt(query, i + 1).v) = SeedIds

\* a response with results for a user one of whose seeds passes every other
\* filter of the request
C1_Witness ==
    /\ Responded
    /\ response.results # <<>>
    /\ \E id \in SeedIds : Matches(FeatureRow(id), UnexcludedQuery)

\* C2: an item named in the request's exclude parameter is never returned
C2_ExplicitExcludeHonoured ==
    Responded => ResultIds \cap Range(SplitStripList(req.exclude)) = {}

\* the positions of the text of q that hold a genre column
ColumnPositions(q) == { i \in DOMAIN q.sql : i > 1 /\ q.sql[i-1] = SQL_COL }

\* the values of the parameters of q that have Python type t
ParamValues(q, t) ==
    { q.params[i].v : i \in { j \in DOMAIN q.params : q.params[j].t = t } }

\* C3: the text of the candidate query is made of the builder's own
\* fragments and of columns of GENRE_TO_COL only; the columns are the ones
\* the recognized genre tokens resolve to, and the title types, languages
\* and regions of the request are parameters
C3_NoRequestTextInQuery ==
    query # NoQuery =>
       /\ \A i \in DOMAIN query.sql : query.sql[i] \in StaticSql \cup GenreColumns
       /\ { query.sql[i] : i \in ColumnPositions(query) }
             = { ResolveGenre(g) : g \in Range(GenreList(req)) } \ {NoCol}
       /\ NumPh(query.sql, Len(query.sql)) = Len(query.params)
       /\ Range(TitleTypes(req.title_types)) \subseteq ParamValues(query, "str")
       /\ req.orig_lang_any # <<>> => LangList(req) \in ParamValues(query, "list")
       /\ req.aka_region_any # <<>> => RegionList(req) \in ParamValues(query, "list")
       /\ SQL_VOTES \in Range(query.sql) /\ SQL_YEAR \in Range(query.sql)

\* a query built for a request with one recognized and one unrecognized
\* genre token: the first is in the text as its column, the second is not
C3_Witness ==
    /\ query # NoQuery
    /\ \E g \in Range(GenreList(req)) : ResolveGenre(g) = NoCol /\ "'" \in Range(g)
    /\ \E g \in Range(GenreList(req)) : ResolveGenre(g) \in Range(query.sql)

\* s and t differ at most in letter case and in hyphens written for spaces
SameButCaseAndHyphen(s, t) ==
    StrReplace(StrLower(s), "-", " ") = StrReplace(StrLower(t), "-", " ")

\* C4: a genre_any that differs from the request's only in letter case or
\* in hyphens for spaces selects the same columns and the same candidates,
\* and so do 'Sci-Fi' and 'Science Fiction'
C4_GenreAliasEquivalence ==
    pc = "score" =>
       \A g \in GenreInputs :
          (SameButCaseAndHyphen(g, req.genre_any)
             \/ {g, req.genre_any} = {G_SciFi, G_ScienceFiction})
          => LET other == CandidateQuery([req EXCEPT !.genre_any = g], seeds)
             IN  /\ { other.sql[i] : i \in ColumnPositions(other) }
                       = { query.sql[i] : i \in ColumnPositions(query) }
                 /\ MatchingRows(other) = MatchingRows(query)

\* C5: when include_adult is omitted, by the client of the endpoint or by
\* the caller of _fetch_candidates, the query holds the adult predicate and
\* no adult title is fetched
C5_AdultExcludedByDefault ==
    /\ query # NoQuery /\ pc \in {"score", "done"} /\ req.include_adult = "omitted"
          => SQL_ADULT \in Range(query.sql)
    /\ query # NoQuery /\ pc \in {"returned", "raised"} /\ call.include_adult = "omitted"
          => SQL_ADULT \in Range(query.sql)
    /\ pc \in {"score", "returned"}
          /\ (IF pc = "score" THEN req.include_adult ELSE call.include_adult) = "omitted"
          => \A i \in DOMAIN cands :
                Coalesce(FeatureRow(cands[i].tconst).f_is_adult, FALSE) = FALSE

\* C6: when the seed fetch returned no row, the request ends with 404, a
\* detail that starts with "No seeds found", and no results
C6_NoSeedsIs404 ==
    [][pc = "check_seeds" /\ seeds = <<>> =>
          /\ pc' = "done"
          /\ response'.status = 404
          /\ response'.detail[1] = DETAIL_NO_SEEDS
          /\ response'.results = <<>>]_vars

\* a request of a user without seed rows has been answered
C6_Witness ==
    /\ pc = "done"
    /\ io = <<"seeds">>
    /\ seeds = <<>>
    /\ SeedIds = {}
    /\ response.status = 404

TotalWeight(sds) == SumSeq([j \in DOMAIN sds |-> sds[j].weight])

\* C7: with seeds whose weights sum to 0 or less, _build_pref_vector gives
\* no vector and the request ends with 400; a vector is only ever built
\* with a positive total weight as its divisor
C7_NonPositiveWeightsIs400 ==
    /\ seeds # <<>> /\ TotalWeight(seeds) <= 0 =>
          /\ pc \in {"check_seeds", "check_pref", "done"}
          /\ pc = "check_pref" => pref = NoPref
          /\ pc = "done" => pref = NoPref /\ response = InvalidWeightsError
                            /\ response.status = 400
    /\ ~pref.none => pref.den > 0

\* a request whose two seeds have weights that cancel has been answered
C7_Witness ==
    /\ pc = "done"
    /\ Len(seeds) = 2
    /\ TotalWeight(seeds) = 0
    /\ response.status = 400

\* C8: a request that ends with 404 or 400 has issued no candidate query;
\* a candidate query is only issued after the seed query, with seeds and a
\* preference vector at hand
C8_ValidationBeforeCandidates ==
    /\ response.status \in {404, 400} => "candidates" \notin Range(io) /\ query = NoQuery
    /\ "candidates" \in Range(io) =>
          /\ io = <<"seeds", "candidates">>
          /\ seeds # <<>>
          /\ ~PrefFalsy(pref)

\* a request has ended with 400 after the seed query alone
C8_Witness ==
    /\ pc = "done"
    /\ response.status = 400
    /\ io = <<"seeds">>

\* C9: adjacent results are in descending order of (score, rating, votes)
C9_RankedByScoreRatingVotes ==
    Responded =>
       \A i \in 1..(Len(response.results) - 1) :
          LET a == response.results[i]
              b == response.results[i + 1]
          IN  /\ ~ScoreGreater(b.score, a.score)
              /\ ScoreEqual(a.score, b.score)
                    /\ a.average_rating # <<>> /\ b.average_rating # <<>> =>
                    /\ a.average_rating[1] >= b.average_rating[1]
                    /\ a.average_rating[1] = b.average_rating[1] =>
                          a.num_votes >= b.num_votes

\* C10: the results do not depend on the order in which the store returned
\* the candidate rows
C10_OrderIndependent ==
    Responded =>
       \A o \in Orders(MatchingRows(query)) :
          Results(pref, [i \in DOMAIN o |-> Candidate(o[i])], req.k) = response.results

\* C11: a response holds at most k results, for k held to 1..100
C11_AtMostKResults ==
    Responded =>
       /\ Len(response.results) <= Max(1, req.k)
       /\ Len(response.results) <= 100
       /\ response.count = Len(response.results)

\* sum over the seeds j of w_j * v_j[i]
RECURSIVE WeightedSum(_, _)
WeightedSum(sds, i) ==
    IF sds = <<>> THEN 0
    ELSE Head(sds).weight * Head(sds).vec[i] + WeightedSum(Tail(sds), i)

\* C12: the preference vector just built from seeds of total weight > 0 has D
\* coordinates, and coordinate i times the total weight is the sum of
\* w_j * v_j[i] over the seeds
C12_WeightedCentroid ==
    pc = "check_pref" /\ TotalWeight(seeds) > 0 =>
       /\ ~pref.none
       /\ pref.den > 0
       /\ Len(pref.num) = D
       /\ \A i \in 1..D :
             pref.num[i] * TotalWeight(seeds) = pref.den * WeightedSum(seeds, i)

\* a preference vector built from two seeds of different weights and
\* different vectors
C12_Witness ==
    /\ pc = "check_pref"
    /\ Len(seeds) = 2
    /\ seeds[1].weight # seeds[2].weight
    /\ seeds[1].vec # seeds[2].vec
    /\ TotalWeight(seeds) > 0
    /\ ~pref.none

\* C13: a vector is only decoded, and so only scored, when it has as many
\* coordinates as the preference vector; anything else raises
C13_MalformedVectorRaises ==
    pc \in {"decoded", "scored"} =>
       /\ call.raw.t \in {"list", "tuple", "str", "bytes", "memoryview"}
       /\ Len(ret.value.vec) = Len(call.a)

\* C14: _cosine never divides by zero, and with an operand of norm zero
\* (an empty vector included) the score is exactly 0
C14_CosineZeroSafe ==
    pc = "scored" =>
       /\ ret.raised = ""
       /\ ret.value.score.nsq > 0
       /\ Dot(call.a, call.a) = 0 \/ Dot(ret.value.vec, ret.value.vec) = 0 =>
             ret.value.score = [dot |-> 0, nsq |-> 1]

\* a vector of zeros has been scored against a preference that is not zero
C14_Witness ==
    /\ pc = "scored"
    /\ ret.value.vec # <<>>
    /\ Dot(ret.value.vec, ret.value.vec) = 0
    /\ Dot(call.a, call.a) > 0
    /\ ret.value.score = [dot |-> 0, nsq |-> 1]

\* the filters of request r, dimension by dimension, on the title t
Satisfies(t, r, sds) ==
    /\ t.num_votes >= r.min_votes
    /\ t.start_year >= r.since_year
    /\ IncludeAdult(r) \/ Coalesce(t.f_is_adult, FALSE) = FALSE
    /\ GenreList(r) # <<>> =>
          \E i \in DOMAIN GenreList(r) : ResolveGenre(GenreList(r)[i]) \in t.g
    /\ t.tconst \notin Range(ExcludeList(sds))
    /\ r.title_types # <<>> => t.titleType \in Range(TitleTypes(r.title_types))
    /\ LangList(r) # <<>> => \E a \in t.akas : a.language \in Range(LangList(r))
    /\ RegionList(r) # <<>> => \E a \in t.akas : a.region \in Range(RegionList(r))

\* C15: the candidate query of a request can be executed, and the rows it
\* fetches are exactly the titles that pass every filter of the request
C15_PoolIsFilterConjunction ==
    "candidates" \in Range(io) =>
       /\ ExecOk(query)
       /\ pc = "score" =>
             { cands[i].tconst : i \in DOMAIN cands }
                = { t.tconst : t \in { x \in TitlesFeatures : Satisfies(x, req, seeds) } }

\* C16: the connection is opened once per request, every query of the
\* request runs on it while it is open, and it is closed when the handler
\* is left, whatever the exit
C16_ConnectionReleased ==
    /\ [](pc \in {"score", "done"} => conn # "open")
    /\ [](pc = "done" /\ io # <<>> => conn = "closed")
    /\ [][/\ io' # io /\ io' # <<>> => conn = "open"
          /\ conn' = "open" /\ conn # "open" => conn = "none" /\ io = <<>>]_vars

\* the candidate query raised after the seed query, and the request is over
C16_Witness ==
    /\ pc = "done"
    /\ response.status = 500
    /\ io = <<"seeds", "candidates">>
    /\ conn = "closed"

\* C17: what is scored is the whole candidate pool of the query, a 200
\* response is the ranking of that pool, and a failed request has no results
C17_NoPartialTopK ==
    /\ pc = "score" =>
          LET rows == MatchingRows(query)
          IN  /\ Len(cands) = Cardinality(rows)
              /\ { cands[i] : i \in DOMAIN cands } = { Candidate(r) : r \in rows }
    /\ Responded => response.results = Results(pref, cands, req.k)
    /\ pc = "done" /\ response.status # 200 =>
          response.results = <<>> /\ response.count = 0

\* the store failed on a candidate query that had rows to return
C17_Witness ==
    /\ pc = "done"
    /\ response.status = 500
    /\ "candidates" \in Range(io)
    /\ ExecOk(query)
    /\ MatchingRows(query) # {}
    /\ cands = <<>>

\* C18: the handler never holds more candidate rows than one batch
C18_BatchedCursor ==
    Len(cands) <= BatchSize

\* C20: every result has a score above 0, the score _cosine gives its row
C20_OnlyPositiveScores ==
    Responded =>
       \A i \in DOMAIN response.results :
          /\ ScorePositive(response.results[i].score)
          /\ \E j \in DOMAIN cands :
                /\ cands[j].tconst = response.results[i].tconst
                /\ response.results[i].score = Cosine(pref, cands[j].vec)

\* fewer than k results although a further candidate, of score 0, was fetched
C20_Witness ==
    /\ Responded
    /\ response.results # <<>>
    /\ Len(response.results) < req.k
    /\ \E j \in DOMAIN cands : ~ScorePositive(Cosine(pref, cands[j].vec))

\* 2^n
RECURSIVE Pow2(_)
Pow2(n) == IF n = 0 THEN 1 ELSE 2 * Pow2(n - 1)

\* a network error, a 429 or a 5xx response
IsFailure(o) == o.kind = "neterr" \/ o.status = 429 \/ o.status \in 500..599

\* C19: at most 4 attempts; a failure is raised only on the fourth; every
\* wait is the Retry-After value of the failed response, or else the
\* backoff, which doubles from 0.5s with every retry
C19_ThreeRetries ==
    /\ tmdb.attempt <= MAX_RETRIES + 1
    /\ Len(tmdb.slept) <= MAX_RETRIES
    /\ tmdb.pc = "raised" /\ IsFailure(tmdb.outcomes[Len(tmdb.outcomes)]) =>
          Len(tmdb.outcomes) = MAX_RETRIES + 1
    /\ \A i \in DOMAIN tmdb.slept :
          tmdb.slept[i] = IF tmdb.outcomes[i].retry_after # <<>>
                          THEN FloatOf(tmdb.outcomes[i].retry_after)
                          ELSE FIRST_BACKOFF * Pow2(i - 1)

\* C21: between the steps of validation, a file under the final name is a
\* valid gzip file, and a resumed run whose Range header the server ignored
\* (status 200) leaves no file under the final name
C21_DestinationValidated ==
    dl.pc \in {"idle", "skipped", "done", "failed"} =>
       /\ disk.dest # NoFile => validate_gzip(disk.dest[1]).ok
       /\ dl.range # <<>> /\ dl.status = 200 => disk.dest = NoFile

\* C22: _dsn returns a DSN whose host is localhost or 127.0.0.1, with or
\* without a port, with host db and port 5432 and nothing else changed, and
\* returns every other non-empty DSN unchanged
C22_LocalHostRewritten ==
    \A d \in DsnParts :
       /\ pc = "dsn_done"
       /\ GetenvOr(call.ANALYTICS_DSN, GetenvOr(call.DATABASE_URL, <<>>)) = DsnText(d)
       => ret.value = IF d.host \in {H_local, H_loopback}
                      THEN DsnText([d EXCEPT !.host = H_db, !.port = P_5432])
                      ELSE DsnText(d)

====
